---- MODULE Spec2Model ----
(***************************************************************************)
(* State-machine model of src/service-worker.js: the install, activate and *)
(* fetch listeners of the news PWA service worker, together with the parts *)
(* of the host platform they call (CacheStorage, Cache, fetch).            *)
(*                                                                         *)
(* URLs, asset identifiers and store names are TLA+ strings, and the       *)
(* string operations of the source (startsWith, includes, replace,         *)
(* URL.pathname, template concatenation) are computed character by         *)
(* character.                                                              *)
(***************************************************************************)
EXTENDS Integers, Sequences, FiniteSets, TLC

VARIABLES
    assets,        \* the asset list the listeners read (ASSETS_TO_CACHE)
    caches,        \* CacheStorage: sequence of [name, entries], in creation order
    installPc,     \* position of the install listener's waitUntil chain
    unreachable,   \* assets whose fetch failed in the pending cache.addAll
    skipWaiting,   \* self.skipWaiting() has been called
    activatePc,    \* position of the activate listener's waitUntil chain
    enumerated,    \* the names caches.keys() resolved with
    deleting,      \* caches.delete(name) calls still in flight
    deleteFailed,  \* names whose caches.delete rejected
    claimed,       \* self.clients.claim() has been called
    handlers       \* fetch listener invocations, in order of arrival

vars == <<assets, caches, installPc, unreachable, skipWaiting, activatePc,
          enumerated, deleting, deleteFailed, claimed, handlers>>

(***************************************************************************)
(* Bounds of the model.                                                    *)
(***************************************************************************)
MaxFetches == 2       \* fetch events dispatched to the worker

(***************************************************************************)
(* String helpers (JavaScript String.prototype semantics).                 *)
(***************************************************************************)
None == "none"

StartsWith(s, p) == Len(s) >= Len(p) /\ SubSeq(s, 1, Len(p)) = p

Includes(s, t) ==
    \E i \in 0..(Len(s) - Len(t)) : SubSeq(s, i + 1, i + Len(t)) = t

\* Index of the first occurrence of t in s at or after position from, 0 if none.
IndexOf(s, t, from) ==
    LET hits == {i \in from..(Len(s) - Len(t) + 1) : SubSeq(s, i, i + Len(t) - 1) = t}
    IN  IF hits = {} THEN 0 ELSE CHOOSE i \in hits : \A j \in hits : i <= j

\* s.replace(t, ""): removes the first occurrence of t only.
ReplaceFirst(s, t) ==
    LET i == IndexOf(s, t, 1)
    IN  IF i = 0 THEN s ELSE SubSeq(s, 1, i - 1) \o SubSeq(s, i + Len(t), Len(s))

\* new URL(url).pathname for an absolute URL with no query or fragment.
PathName(url) ==
    LET a == IndexOf(url, "://", 1)
        p == IndexOf(url, "/", a + 3)
    IN  IF p = 0 THEN "/" ELSE SubSeq(url, p, Len(url))

(***************************************************************************)
(* Configuration constants of the worker.                                  *)
(***************************************************************************)
CACHE_VERSION == "news-pwa-v1.0.0"

StaticCacheOf(version) == version \o "-static-assets"
NewsCacheOf(version) == version \o "-dynamic-news"

STATIC_CACHE == StaticCacheOf(CACHE_VERSION)
NEWS_CACHE == NewsCacheOf(CACHE_VERSION)

ASSETS_TO_CACHE == <<"/", "/index.html", "https://cdn.tailwindcss.com">>

cacheAllowList_NoNews == <<STATIC_CACHE>>
cacheAllowList == <<STATIC_CACHE, NEWS_CACHE>>

\* Array.prototype.indexOf(x) === -1
NotInList(list, x) == \A i \in 1..Len(list) : list[i] # x

(***************************************************************************)
(* The environment: origin, URLs, requests, responses, prior stores.       *)
(***************************************************************************)
Origin == "https://app"

UrlRoot == "https://app/"
UrlIndex == "https://app/index.html"
UrlNewsLatest == "https://app/api/news/latest"
UrlNewsIndex == "https://app/api/news/index.html"
UrlOther == "https://app/other"
UrlCdn == "https://cdn.tailwindcss.com/"
UrlExtension == "chrome-extension://abc/index.html"

Urls == {UrlRoot, UrlIndex, UrlNewsLatest, UrlNewsIndex, UrlOther, UrlCdn,
         UrlExtension}

Req(url, method) == [url |-> url, method |-> method]

Requests ==
    { Req(UrlRoot, "GET"), Req(UrlIndex, "GET"), Req(UrlNewsLatest, "GET"),
      Req(UrlNewsLatest, "POST"), Req(UrlNewsIndex, "GET"),
      Req(UrlOther, "POST"), Req(UrlExtension, "GET") }

\* Responses the network can produce; Response.ok is status 200-299.
NetResponses == {"200-a", "200-b", "404"}
ResponseOk(r) == r \in {"200-a", "200-b", "200-shell", "200-old"}

PriorVersions == {"news-pwa-v0.9.0", "news-pwa-v0.8.0"}

NoEntries == [u \in Urls |-> None]
Store(name, entries) == [name |-> name, entries |-> entries]

\* Stores left by earlier workers of the same origin.
PriorStoreLists ==
    { <<>>,
      << Store(StaticCacheOf("news-pwa-v0.9.0"), [NoEntries EXCEPT ![UrlIndex] = "200-old"]),
         Store(NewsCacheOf("news-pwa-v0.8.0"), [NoEntries EXCEPT ![UrlOther] = "200-old"]) >>,
      << Store(NewsCacheOf("news-pwa-v0.9.0"), [NoEntries EXCEPT ![UrlNewsLatest] = "200-old"]),
         Store(NEWS_CACHE, [NoEntries EXCEPT ![UrlNewsLatest] = "200-a"]) >> }

(***************************************************************************)
(* CacheStorage and Cache operations of the platform.                      *)
(***************************************************************************)
CacheNames(cs) == [i \in 1..Len(cs) |-> cs[i].name]

HasCache(cs, name) == \E i \in 1..Len(cs) : cs[i].name = name

CacheIndex(cs, name) == CHOOSE i \in 1..Len(cs) : cs[i].name = name

\* caches.open(name): the store is created, last in order, when absent.
CachesOpen(cs, name) ==
    IF HasCache(cs, name) THEN cs ELSE Append(cs, Store(name, NoEntries))

\* caches.delete(name)
CachesDelete(cs, name) ==
    LET keep == {i \in 1..Len(cs) : cs[i].name # name}
        F[i \in 0..Len(cs)] ==
            IF i = 0 THEN <<>>
            ELSE IF i \in keep THEN Append(F[i - 1], cs[i]) ELSE F[i - 1]
    IN  F[Len(cs)]

\* cache.put(request, response) on the store called name.
CachePut_WrongKey(cs, name, url, resp) ==
    [cs EXCEPT ![CacheIndex(cs, name)].entries[UrlRoot] = resp]
CachePut(cs, name, url, resp) ==
    [cs EXCEPT ![CacheIndex(cs, name)].entries[url] = resp]

\* caches.match(request): every store is searched, in creation order; a
\* request whose method is not GET matches nothing.
CachesMatch(cs, req) ==
    LET hits == {i \in 1..Len(cs) : cs[i].entries[req.url] # None}
    IN  IF req.method # "GET" \/ hits = {} THEN None
        ELSE cs[CHOOSE i \in hits : \A j \in hits : i <= j].entries[req.url]

\* The name of the store whose entry caches.match(request) resolves with.
CachesMatchStore(cs, req) ==
    LET hits == {i \in 1..Len(cs) : cs[i].entries[req.url] # None}
    IN  IF req.method # "GET" \/ hits = {} THEN None
        ELSE cs[CHOOSE i \in hits : \A j \in hits : i <= j].name

\* The request URL cache.addAll derives from an asset identifier.
ResolveUrl(asset) ==
    LET abs == IF StartsWith(asset, "/") THEN Origin \o asset ELSE asset
    IN  IF IndexOf(abs, "/", IndexOf(abs, "://", 1) + 3) = 0 THEN abs \o "/" ELSE abs

AssetSet(list) == {list[i] : i \in 1..Len(list)}

RECURSIVE PutAll(_, _, _)
PutAll(cs, name, todo) ==
    IF todo = {} THEN cs
    ELSE LET a == CHOOSE x \in todo : TRUE
         IN  PutAll(CachePut(cs, name, ResolveUrl(a), "200-shell"), name, todo \ {a})

\* cache.addAll(list): all-or-nothing; one failed fetch rejects the call and
\* nothing is stored.
CacheAddAll(cs, name, list, failed) ==
    IF failed = {} THEN PutAll(cs, name, AssetSet(list)) ELSE cs

(***************************************************************************)
(* Construction: the worker script has been evaluated, no listener has run.*)
(***************************************************************************)
InitWith(list) ==
    /\ assets = list
    /\ caches \in PriorStoreLists
    /\ installPc = "start"
    /\ unreachable = {}
    /\ skipWaiting = FALSE
    /\ activatePc = "waiting"
    /\ enumerated = <<>>
    /\ deleting = {}
    /\ deleteFailed = {}
    /\ claimed = FALSE
    /\ handlers = <<>>

Init == InitWith(ASSETS_TO_CACHE)

(***************************************************************************)
(* 1. The install listener.                                                *)
(***************************************************************************)
InstallOpen_SkipWaitingFirst ==
    /\ installPc = "start"
    /\ caches' = CachesOpen(caches, STATIC_CACHE)
    /\ installPc' = "opened"
    /\ skipWaiting' = TRUE
    /\ UNCHANGED <<assets, unreachable, activatePc, enumerated,
                   deleting, deleteFailed, claimed, handlers>>

\* caches.open(STATIC_CACHE) resolves.
InstallOpen ==
    /\ installPc = "start"
    /\ caches' = CachesOpen(caches, STATIC_CACHE)
    /\ installPc' = "opened"
    /\ UNCHANGED <<assets, unreachable, skipWaiting, activatePc, enumerated,
                   deleting, deleteFailed, claimed, handlers>>

\* cache.addAll(ASSETS_TO_CACHE) settles; a rejection is caught and turned
\* into a resolution, so the chain continues either way.
InstallAddAll ==
    /\ installPc = "opened"
    /\ \E failed \in SUBSET AssetSet(assets) :
          /\ unreachable' = failed
          /\ caches' = CacheAddAll(caches, STATIC_CACHE, assets, failed)
    /\ installPc' = "cached"
    /\ UNCHANGED <<assets, skipWaiting, activatePc, enumerated, deleting,
                   deleteFailed, claimed, handlers>>

\* .then(() => self.skipWaiting()): the waitUntil promise resolves, the
\* chain and the error it carried are gone, and the platform moves on to
\* activation.
InstallSkipWaiting ==
    /\ installPc = "cached"
    /\ skipWaiting' = TRUE
    /\ installPc' = "installed"
    /\ unreachable' = {}
    /\ activatePc' = "start"
    /\ UNCHANGED <<assets, caches, enumerated, deleting, deleteFailed,
                   claimed, handlers>>

(***************************************************************************)
(* 2. The activate listener.                                               *)
(***************************************************************************)
\* The names the cacheNames.map callback deletes.
NamesToDelete(names, allow) ==
    {names[i] : i \in {j \in 1..Len(names) : NotInList(allow, names[j])}}

\* caches.keys() settles.  On success the map callback issues every
\* caches.delete at once; on failure the waitUntil promise rejects.
ActivateKeys ==
    /\ activatePc = "start"
    /\ \/ /\ enumerated' = CacheNames(caches)
          /\ deleting' = NamesToDelete(CacheNames(caches), cacheAllowList)
          /\ activatePc' = "deleting"
       \/ /\ activatePc' = "rejected"
          /\ UNCHANGED <<enumerated, deleting>>
    /\ UNCHANGED <<assets, caches, installPc, unreachable, skipWaiting,
                   deleteFailed, claimed, handlers>>

ActivateDelete_AbortsOthers(name) ==
    /\ name \in deleting
    /\ \/ /\ caches' = CachesDelete(caches, name)
          /\ deleting' = deleting \ {name}
          /\ UNCHANGED <<deleteFailed, activatePc>>
       \/ /\ deleteFailed' = deleteFailed \cup {name}
          /\ deleting' = {}
          /\ activatePc' = "rejected"
          /\ UNCHANGED caches
    /\ UNCHANGED <<assets, installPc, unreachable, skipWaiting, enumerated,
                   claimed, handlers>>

\* One caches.delete(name) settles.  Promise.all rejects on the first
\* rejection; the other deletions are not cancelled.
ActivateDelete(name) ==
    /\ name \in deleting
    /\ deleting' = deleting \ {name}
    /\ \/ /\ caches' = CachesDelete(caches, name)
          /\ UNCHANGED <<deleteFailed, activatePc>>
       \/ /\ deleteFailed' = deleteFailed \cup {name}
          /\ activatePc' = "rejected"
          /\ UNCHANGED caches
    /\ UNCHANGED <<assets, installPc, unreachable, skipWaiting, enumerated,
                   claimed, handlers>>

ActivateClaim_BeforeDeletions ==
    /\ activatePc = "deleting"
    /\ claimed' = TRUE
    /\ activatePc' = "activated"
    /\ UNCHANGED <<assets, caches, installPc, unreachable, skipWaiting,
                   enumerated, deleting, deleteFailed, handlers>>

\* Promise.all resolved: .then(() => self.clients.claim()).
ActivateClaim ==
    /\ activatePc = "deleting"
    /\ deleting = {}
    /\ claimed' = TRUE
    /\ activatePc' = "activated"
    /\ UNCHANGED <<assets, caches, installPc, unreachable, skipWaiting,
                   enumerated, deleting, deleteFailed, handlers>>

(***************************************************************************)
(* 3. The fetch listener.                                                  *)
(***************************************************************************)
\* ASSETS_TO_CACHE.some(asset => url.includes(asset.replace('/', '')))
isStaticAsset(url, list) ==
    \E i \in 1..Len(list) : Includes(url, ReplaceFirst(list[i], "/"))

IsExtensionUrl(url) == StartsWith(url, "chrome-extension://")

IsNewsGet(req) == req.method = "GET" /\ StartsWith(PathName(req.url), "/api/news")

\* The branch the synchronous part of the listener takes.
Branch_NoExtensionGuard(req, list) ==
    IF isStaticAsset(req.url, list) \/ PathName(req.url) = "/" THEN "cacheFirst"
    ELSE IF IsNewsGet(req) THEN "networkFirst"
    ELSE "default"
Branch_NewsFirst(req, list) ==
    IF IsExtensionUrl(req.url) THEN "ignored"
    ELSE IF IsNewsGet(req) THEN "networkFirst"
    ELSE IF isStaticAsset(req.url, list) \/ PathName(req.url) = "/" THEN "cacheFirst"
    ELSE "default"
Branch(req, list) ==
    IF IsExtensionUrl(req.url) THEN "ignored"
    ELSE IF isStaticAsset(req.url, list) \/ PathName(req.url) = "/" THEN "cacheFirst"
    ELSE IF IsNewsGet(req) THEN "networkFirst"
    ELSE "default"

\* The latest status-OK network response an earlier, settled invocation
\* returned for the same request (None when there is none).
PreviousOk(hs, req) ==
    LET js == {j \in 1..Len(hs) : /\ hs[j].req = req
                                  /\ hs[j].pc = "done"
                                  /\ hs[j].netOutcome = "response"
                                  /\ hs[j].resp = hs[j].netResp
                                  /\ ResponseOk(hs[j].resp)}
    IN  IF js = {} THEN None
        ELSE hs[CHOOSE j \in js : \A k \in js : k <= j].resp

\* The invocation record after the synchronous part of the listener.
\*   responded   event.respondWith was called
\*   resp        what the respondWith promise settled with (None: undefined)
\*   rejected    the respondWith promise rejected
\*   lookups     caches.match calls issued by the listener
\*   netFetches  fetch() calls issued by the listener
\*   netOutcome  how the listener's fetch settled: none, response, failed
\*   stored      the entry the stores held for the request when looked up
\*   storedIn    the name of the store that entry was read from
\*   lastOk      the invocation's fetch is the latest one, for its request,
\*               that the network answered with a status-OK response
\*   putPc       the detached caches.open(NEWS_CACHE).then(put): none, open,
\*               put, written
NewHandler(req, list, hs) ==
    LET b == Branch(req, list)
    IN  [ req |-> req,
          branch |-> b,
          pc |-> CASE b = "cacheFirst" -> "match"
                   [] b = "networkFirst" -> "fetch"
                   [] OTHER -> "done",
          responded |-> b \in {"cacheFirst", "networkFirst"},
          resp |-> None,
          rejected |-> FALSE,
          lookups |-> IF b = "cacheFirst" THEN 1 ELSE 0,
          lookupFailed |-> FALSE,
          stored |-> None,
          storedIn |-> None,
          netFetches |-> IF b \in {"networkFirst", "default"} THEN 1 ELSE 0,
          netOutcome |-> "none",
          netResp |-> None,
          putPc |-> "none",
          logged |-> FALSE,
          lastOk |-> FALSE,
          prevOk |-> PreviousOk(hs, req) ]

\* Requests the platform sends to the network for an invocation: the
\* listener's own fetch() calls, plus the platform's default handling of the
\* request when respondWith was not called.
NetworkRequests(h) == h.netFetches + (IF h.responded THEN 0 ELSE 1)

FetchPhase == activatePc \in {"activated", "rejected"}

\* The platform dispatches a fetch event; the listener runs to its return.
FetchEvent(req) ==
    /\ FetchPhase
    /\ Len(handlers) < MaxFetches
    /\ handlers' = Append(handlers, NewHandler(req, assets, handlers))
    /\ UNCHANGED <<assets, caches, installPc, unreachable, skipWaiting,
                   activatePc, enumerated, deleting, deleteFailed, claimed>>

\* .then(response => response || fetch(event.request))
AfterMatch_AlwaysFetch(h, response) ==
    [h EXCEPT !.stored = response, !.pc = "fetch", !.netFetches = @ + 1]
AfterMatch_MissNeverResolves(h, response) ==
    IF response # None
    THEN [h EXCEPT !.stored = response, !.resp = response, !.pc = "done"]
    ELSE [h EXCEPT !.stored = response, !.pc = "pending"]
AfterMatch(h, response) ==
    IF response # None
    THEN [h EXCEPT !.stored = response, !.resp = response, !.pc = "done"]
    ELSE [h EXCEPT !.stored = response, !.pc = "fetch", !.netFetches = @ + 1]

\* .catch(err => { console.error(...) }) of the cache-first chain: the
\* respondWith promise resolves with undefined.
CacheFirstCatch(h) == [h EXCEPT !.resp = None, !.logged = TRUE, !.pc = "done"]

\* Cache-first: caches.match(event.request) settles.
CacheFirstMatch(i) ==
    /\ i \in 1..Len(handlers)
    /\ handlers[i].branch = "cacheFirst"
    /\ handlers[i].pc = "match"
    /\ LET found == CachesMatch(caches, handlers[i].req)
           from == CachesMatchStore(caches, handlers[i].req)
       IN  \/ handlers' = [handlers EXCEPT
                             ![i] = AfterMatch([@ EXCEPT !.storedIn = from], found)]
           \/ handlers' = [handlers EXCEPT
                             ![i] = CacheFirstCatch(
                                       [@ EXCEPT !.lookupFailed = TRUE,
                                                 !.stored = found,
                                                 !.storedIn = from])]
    /\ UNCHANGED <<assets, caches, installPc, unreachable, skipWaiting,
                   activatePc, enumerated, deleting, deleteFailed, claimed>>

\* Cache-first: the fetch(event.request) issued on a miss settles.
CacheFirstFetch(i) ==
    /\ i \in 1..Len(handlers)
    /\ handlers[i].branch = "cacheFirst"
    /\ handlers[i].pc = "fetch"
    /\ \/ \E r \in NetResponses :
             handlers' = [handlers EXCEPT
                            ![i] = [@ EXCEPT !.netOutcome = "response",
                                             !.netResp = r,
                                             !.resp = r,
                                             !.pc = "done"]]
       \/ handlers' = [handlers EXCEPT
                         ![i] = CacheFirstCatch([@ EXCEPT !.netOutcome = "failed"])]
    /\ UNCHANGED <<assets, caches, installPc, unreachable, skipWaiting,
                   activatePc, enumerated, deleting, deleteFailed, claimed>>

\* .then(response => { clone; if (response.ok) caches.open(...)...; return response })
AfterNetworkFetch_AlwaysCache(h, r) ==
    [h EXCEPT !.netOutcome = "response",
              !.netResp = r,
              !.resp = r,
              !.putPc = "open",
              !.pc = "done"]
AfterNetworkFetch(h, r) ==
    [h EXCEPT !.netOutcome = "response",
              !.netResp = r,
              !.resp = r,
              !.putPc = IF ResponseOk(r) THEN "open" ELSE "none",
              !.pc = "done"]

\* Completion order of the network-first fetches: when invocation i has just
\* received a status-OK response, it becomes the latest such invocation for
\* its request.
LatestOk(hs, i) ==
    IF ~ResponseOk(hs[i].netResp) THEN hs
    ELSE [j \in 1..Len(hs) |->
            IF j = i THEN [hs[j] EXCEPT !.lastOk = TRUE]
            ELSE IF hs[j].req = hs[i].req THEN [hs[j] EXCEPT !.lastOk = FALSE]
            ELSE hs[j]]

\* Network-first: fetch(event.request) settles.  On failure the catch
\* callback logs and calls caches.match(event.request).
NetworkFirstFetch(i) ==
    /\ i \in 1..Len(handlers)
    /\ handlers[i].branch = "networkFirst"
    /\ handlers[i].pc = "fetch"
    /\ \/ \E r \in NetResponses :
             handlers' = LatestOk([handlers EXCEPT ![i] = AfterNetworkFetch(@, r)], i)
       \/ handlers' = [handlers EXCEPT
                         ![i] = [@ EXCEPT !.netOutcome = "failed",
                                          !.logged = TRUE,
                                          !.lookups = @ + 1,
                                          !.pc = "fallback"]]
    /\ UNCHANGED <<assets, caches, installPc, unreachable, skipWaiting,
                   activatePc, enumerated, deleting, deleteFailed, claimed>>

\* Network-first: the fallback caches.match(event.request) settles; its
\* result, or its rejection, settles the respondWith promise.
NetworkFirstFallback(i) ==
    /\ i \in 1..Len(handlers)
    /\ handlers[i].branch = "networkFirst"
    /\ handlers[i].pc = "fallback"
    /\ LET found == CachesMatch(caches, handlers[i].req)
           from == CachesMatchStore(caches, handlers[i].req)
       IN  \/ handlers' = [handlers EXCEPT
                             ![i] = [@ EXCEPT !.stored = found,
                                              !.storedIn = from,
                                              !.resp = found,
                                              !.pc = "done"]]
           \/ handlers' = [handlers EXCEPT
                             ![i] = [@ EXCEPT !.stored = found,
                                              !.storedIn = from,
                                              !.lookupFailed = TRUE,
                                              !.rejected = TRUE,
                                              !.pc = "done"]]
    /\ UNCHANGED <<assets, caches, installPc, unreachable, skipWaiting,
                   activatePc, enumerated, deleting, deleteFailed, claimed>>

\* The detached caches.open(NEWS_CACHE) resolves.
NewsCacheOpen(i) ==
    /\ i \in 1..Len(handlers)
    /\ handlers[i].putPc = "open"
    /\ caches' = CachesOpen(caches, NEWS_CACHE)
    /\ handlers' = [handlers EXCEPT ![i].putPc = "put"]
    /\ UNCHANGED <<assets, installPc, unreachable, skipWaiting, activatePc,
                   enumerated, deleting, deleteFailed, claimed>>

\* cache.put(event.request, responseClone) completes.
NewsCachePut(i) ==
    /\ i \in 1..Len(handlers)
    /\ handlers[i].putPc = "put"
    /\ caches' = CachePut(CachesOpen(caches, NEWS_CACHE), NEWS_CACHE,
                          handlers[i].req.url, handlers[i].netResp)
    /\ handlers' = [handlers EXCEPT ![i].putPc = "written"]
    /\ UNCHANGED <<assets, installPc, unreachable, skipWaiting, activatePc,
                   enumerated, deleting, deleteFailed, claimed>>

(***************************************************************************)
(* The worker as deployed.                                                 *)
(***************************************************************************)
Next ==
    \/ InstallOpen
    \/ InstallAddAll
    \/ InstallSkipWaiting
    \/ ActivateKeys
    \/ \E name \in deleting : ActivateDelete(name)
    \/ ActivateClaim
    \/ \E req \in Requests : FetchEvent(req)
    \/ \E i \in 1..MaxFetches : CacheFirstMatch(i)
    \/ \E i \in 1..MaxFetches : CacheFirstFetch(i)

Spec == Init /\ [][Next]_vars

(***************************************************************************)
(* The same listeners under the asset list without the root entry "/":     *)
(* there includes("") no longer makes every URL a static asset, and the    *)
(* network-first and default branches of the fetch listener run.           *)
(***************************************************************************)
AssetLists == { <<"/index.html", "https://cdn.tailwindcss.com">> }

InitCfg == \E list \in AssetLists : InitWith(list)

NextCfg ==
    \/ Next
    \/ \E i \in 1..MaxFetches : NetworkFirstFetch(i)
    \/ \E i \in 1..MaxFetches : NetworkFirstFallback(i)
    \/ \E i \in 1..MaxFetches : NewsCacheOpen(i)
    \/ \E i \in 1..MaxFetches : NewsCachePut(i)

SpecCfg == InitCfg /\ [][NextCfg]_vars

(***************************************************************************)
(* The platform's side of the claim that nothing hangs: every store        *)
(* operation and every network fetch that was started eventually settles,  *)
(* and a settled promise's callbacks are run.  Dispatching a fetch event   *)
(* is the platform's choice and carries no fairness.                       *)
(***************************************************************************)
StoreNames ==
    {STATIC_CACHE, NEWS_CACHE}
        \cup {StaticCacheOf(v) : v \in PriorVersions}
        \cup {NewsCacheOf(v) : v \in PriorVersions}

EverythingStartedSettles ==
    /\ WF_vars(InstallOpen)
    /\ WF_vars(InstallAddAll)
    /\ WF_vars(InstallSkipWaiting)
    /\ WF_vars(ActivateKeys)
    /\ WF_vars(ActivateClaim)
    /\ \A name \in StoreNames : WF_vars(ActivateDelete(name))
    /\ \A i \in 1..MaxFetches :
          /\ WF_vars(CacheFirstMatch(i))
          /\ WF_vars(CacheFirstFetch(i))
          /\ WF_vars(NetworkFirstFetch(i))
          /\ WF_vars(NetworkFirstFallback(i))
          /\ WF_vars(NewsCacheOpen(i))
          /\ WF_vars(NewsCachePut(i))

SpecLive == SpecCfg /\ EverythingStartedSettles

(***************************************************************************)
(* Properties.                                                             *)
(***************************************************************************)
Handlers == {handlers[i] : i \in 1..Len(handlers)}

StoreHas(cs, name, url) ==
    HasCache(cs, name) /\ cs[CacheIndex(cs, name)].entries[url] # None

IsNewsPath(req) == StartsWith(PathName(req.url), "/api/news")

\* C1: for every intercepted request whose method is not GET and whose path
\* begins with /api/news, the listener issues no store lookup and no store
\* write and does not supply a response of its own.
C1_NonGetNewsBypassesStores ==
    \A h \in Handlers :
        (~IsExtensionUrl(h.req.url) /\ h.req.method # "GET" /\ IsNewsPath(h.req))
            => (h.lookups = 0 /\ h.putPc = "none" /\ ~h.responded)

\* C2: a GET request under /api/news for which an earlier invocation returned
\* a status-OK network response R gets a response equal to R from a later
\* invocation whose network fetch fails.
C2_OfflineServesLastOk ==
    \A h \in Handlers :
        (IsNewsGet(h.req) /\ h.prevOk # None /\ h.pc = "done"
            /\ h.netOutcome = "failed")
            => (h.resp = h.prevOk /\ ~h.rejected)

\* C3: when install settles after an addAll in which exactly one asset was
\* unreachable, every other asset of the list is in the static-assets store
\* and install is reported as successful.
C3_PartialInstallKeepsOthers ==
    [][ (installPc = "cached" /\ installPc' = "installed"
            /\ Cardinality(unreachable) = 1)
          => /\ skipWaiting'
             /\ \A a \in AssetSet(assets) \ unreachable :
                   StoreHas(caches', STATIC_CACHE, ResolveUrl(a)) ]_vars

\* C4: while activation runs, every store of the current version that exists
\* keeps existing with its entries, and at the step that completes activation
\* (the page claim) no store named for a prior version exists.
C4_ActivationReplacesPriorVersions ==
    [][ /\ activatePc \in {"start", "deleting"}
           => \A n \in {STATIC_CACHE, NEWS_CACHE} :
                 HasCache(caches, n)
                    => /\ HasCache(caches', n)
                       /\ caches'[CacheIndex(caches', n)].entries
                             = caches[CacheIndex(caches, n)].entries
        /\ (activatePc = "deleting" /\ activatePc' = "activated")
           => \A v \in PriorVersions :
                 /\ ~HasCache(caches', StaticCacheOf(v))
                 /\ ~HasCache(caches', NewsCacheOf(v)) ]_vars

\* Activation completed with a prior-version store enumerated and a
\* current-version dynamic-news store, with its entry, retained.
C4_Witness ==
    /\ activatePc = "activated"
    /\ handlers = <<>>
    /\ \E i \in 1..Len(enumerated) : enumerated[i] = NewsCacheOf("news-pwa-v0.9.0")
    /\ HasCache(caches, STATIC_CACHE)
    /\ StoreHas(caches, NEWS_CACHE, UrlNewsLatest)

C6_MissGoesToNetwork ==
    \A h \in Handlers :
        (h.branch = "cacheFirst" /\ h.pc = "done" /\ h.stored = None)
            => /\ h.netFetches = 1
               /\ \/ h.netOutcome = "response" /\ h.resp = h.netResp
                  \/ h.netOutcome = "failed" /\ h.resp = None
               /\ h.putPc = "none"

\* C7: for a request whose URL begins with chrome-extension:// the listener
\* returns with no store lookup, no store write, no network fetch and no
\* response, and enters neither strategy.
C7_ExtensionIgnored ==
    \A h \in Handlers :
        IsExtensionUrl(h.req.url)
            => /\ h.branch \notin {"cacheFirst", "networkFirst"}
               /\ h.lookups = 0 /\ h.putPc = "none" /\ h.netFetches = 0
               /\ ~h.responded /\ h.pc = "done"

\* The listener has run for an extension-internal request.
C7_Witness == \E h \in Handlers : IsExtensionUrl(h.req.url) /\ h.pc = "done"

C10_ThreeClassesReachable ==
    assets = ASSETS_TO_CACHE
        => \A h \in Handlers :
              /\ h.req = Req(UrlNewsLatest, "GET") => h.branch = "networkFirst"
              /\ h.req = Req(UrlOther, "POST") => h.branch = "default"

C13_NoResponseOnlyWhenBothFail ==
    \A h \in Handlers :
        (h.branch = "cacheFirst" /\ h.pc = "done")
            => /\ ~h.rejected
               /\ (h.resp = None)
                     <=> ((h.lookupFailed \/ h.stored = None)
                            /\ h.netOutcome = "failed")
               /\ h.resp = None => h.logged

\* C14: skipWaiting is issued only at the step that follows the settled bulk
\* insert, it has been issued whenever install has settled (whether the bulk
\* insert succeeded or failed), and once the bulk insert has settled it is
\* not issued again and the stores are not written by install any more.
C14_SkipWaitingAfterBulkInsert ==
    [][ /\ (~skipWaiting /\ skipWaiting')
           => (installPc = "cached" /\ installPc' = "installed")
        /\ installPc' = "installed" => skipWaiting'
        /\ installPc \in {"cached", "installed"}
           => installPc' \in {"cached", "installed"}
        /\ installPc = "cached" => caches' = caches ]_vars

\* Install settled, with skipWaiting issued, after a bulk insert that failed
\* (the static-assets store exists and holds no shell document).
C14_Witness ==
    /\ installPc = "installed" /\ skipWaiting
    /\ handlers = <<>>
    /\ HasCache(caches, STATIC_CACHE)
    /\ ~StoreHas(caches, STATIC_CACHE, UrlIndex)

\* C15: once pages are claimed, the enumeration has resolved, no deletion is
\* in flight or failed, and no enumerated store outside the allow-list
\* exists.
C15_ClaimAfterCleanup ==
    claimed
        => /\ activatePc = "activated"
           /\ deleting = {} /\ deleteFailed = {}
           /\ Len(enumerated) > 0
           /\ \A i \in 1..Len(enumerated) :
                 NotInList(cacheAllowList, enumerated[i])
                    => ~HasCache(caches, enumerated[i])

\* Pages were claimed after two prior-version stores were enumerated.
C15_Witness ==
    /\ claimed
    /\ \E i, j \in 1..Len(enumerated) :
          /\ enumerated[i] = StaticCacheOf("news-pwa-v0.9.0")
          /\ enumerated[j] = NewsCacheOf("news-pwa-v0.8.0")

\* C16: every enumerated store outside the allow-list has a deletion that is
\* in flight, failed, or done (the store is gone), whatever happened to the
\* other deletions; and once a deletion or the enumeration has failed,
\* activation is rejected and pages are not claimed.
C16_DeletionsIndependent ==
    /\ \A i \in 1..Len(enumerated) :
          NotInList(cacheAllowList, enumerated[i])
             => \/ enumerated[i] \in deleting
                \/ enumerated[i] \in deleteFailed
                \/ ~HasCache(caches, enumerated[i])
    /\ deleting \cap deleteFailed = {}
    /\ deleteFailed # {} => activatePc = "rejected"
    /\ activatePc = "rejected" => ~claimed

\* One deletion failed, activation is rejected, and the other prior-version
\* store has been deleted all the same.
C16_Witness ==
    /\ activatePc = "rejected" /\ ~claimed
    /\ deleteFailed = {StaticCacheOf("news-pwa-v0.9.0")}
    /\ deleting = {}
    /\ HasCache(caches, StaticCacheOf("news-pwa-v0.9.0"))
    /\ ~HasCache(caches, NewsCacheOf("news-pwa-v0.8.0"))

Settled(i) == i <= Len(handlers) /\ handlers[i].pc = "done"

ServedFromStore(h) ==
    /\ h.pc = "done" /\ ~h.lookupFailed
    /\ h.stored # None /\ h.resp = h.stored /\ h.netOutcome # "response"

\* C19: a response served from storage was read from the store of the
\* strategy in use, which is on the allow-list: the static-assets store for a
\* cache-first hit, the dynamic-news store for a network-first fallback.
C19_ServedFromOwnStore ==
    \A h \in Handlers :
        ServedFromStore(h)
            => h.storedIn = (IF h.branch = "cacheFirst" THEN STATIC_CACHE
                             ELSE NEWS_CACHE)

NewsEntry(url) ==
    IF HasCache(caches, NEWS_CACHE)
    THEN caches[CacheIndex(caches, NEWS_CACHE)].entries[url]
    ELSE None

Quiescent ==
    \A h \in Handlers : h.pc = "done" /\ h.putPc \in {"none", "written"}

====
